---- MODULE Spec2Model ----
(***************************************************************************)
(* Model of the two command-line utilities of VideoForge:                  *)
(*   process_mkv.py   - MKV track parser, audio-language filter, subtitle  *)
(*                      stripper and title normalizer;                     *)
(*   hevc_stitcher.py - resolution validator, file ordering and encoder    *)
(*                      invocation.                                        *)
(* Text is modelled as sequences of one-character strings so that the      *)
(* strip / split / substring operations of the Python code are computed,   *)
(* not assumed.  A multi-line text is a sequence of lines (the result of   *)
(* stdout.split('\n')).                                                    *)
(***************************************************************************)
EXTENDS Integers, Sequences, FiniteSets, TLC

(***************************************************************************)
(* Bounds of the model.                                                    *)
(***************************************************************************)
MaxLines == 4     \* lines of mkvinfo text given to parse_tracks on its own
MaxTracks == 3    \* tracks in the container processed by process_mkv_file
MaxSize == 4      \* file sizes range over 0..MaxSize
MaxRuns == 2      \* consecutive invocations of the MKV processor
MaxFiles == 4     \* directory entries seen by the stitcher

(***************************************************************************)
(* Python string operations on character sequences.                        *)
(***************************************************************************)
Whitespace == {" ", "\t"}

MinOf(S) == CHOOSE x \in S : \A y \in S : x <= y

MaxOf(S) == CHOOSE x \in S : \A y \in S : x >= y

\* str.strip()
Strip(s) ==
    LET keep == {i \in 1..Len(s) : s[i] \notin Whitespace}
    IN IF keep = {} THEN <<>> ELSE SubSeq(s, MinOf(keep), MaxOf(keep))

\* str.rstrip(')')
RStripParen(s) ==
    LET keep == {i \in 1..Len(s) : s[i] # ")"}
    IN IF keep = {} THEN <<>> ELSE SubSeq(s, 1, MaxOf(keep))

\* positions >= from at which sep occurs in s
Occurrences(s, sep, from) ==
    {i \in from..(Len(s) - Len(sep) + 1) : SubSeq(s, i, i + Len(sep) - 1) = sep}

\* sep in s
Contains(s, sep) == Occurrences(s, sep, 1) # {}

\* s.split(sep)[1]: the text between the first and the second occurrence of
\* sep (or the end of s).  Only used where sep occurs in s.
SplitSecond(s, sep) ==
    LET first == MinOf(Occurrences(s, sep, 1))
        start == first + Len(sep)
        later == Occurrences(s, sep, start)
    IN IF later = {} THEN SubSeq(s, start, Len(s))
       ELSE SubSeq(s, start, MinOf(later) - 1)

\* faulty variant: the ids are joined with a blank
RECURSIVE JoinBlank(_)
JoinBlank(parts) ==
    IF parts = <<>> THEN <<>>
    ELSE IF Len(parts) = 1 THEN parts[1]
    ELSE parts[1] \o <<" ">> \o JoinBlank(Tail(parts))

\* ','.join(parts)
RECURSIVE JoinComma(_)
JoinComma(parts) ==
    IF parts = <<>> THEN <<>>
    ELSE IF Len(parts) = 1 THEN parts[1]
    ELSE parts[1] \o <<",">> \o JoinComma(Tail(parts))

(***************************************************************************)
(* Literals of process_mkv.py.                                             *)
(***************************************************************************)
MarkTrackNumber == <<"|"," "," ","+"," ","T","r","a","c","k"," ","n","u","m","b","e","r",":">>
MarkMkvextract == <<"m","k","v","e","x","t","r","a","c","t",":">>
MarkTrackType == <<"|"," "," ","+"," ","T","r","a","c","k"," ","t","y","p","e",":">>
MarkCodecId == <<"|"," "," ","+"," ","C","o","d","e","c"," ","I","D",":">>
MarkLanguage == <<"|"," "," ","+"," ","L","a","n","g","u","a","g","e",":">>
MarkIETF == <<"I","E","T","F">>
MarkTitle == <<"|"," "," ","+"," ","T","i","t","l","e",":">>
Colon == <<":">>
Undefined == <<"u","n","d","e","f","i","n","e","d">>
Audio == <<"a","u","d","i","o">>
Video == <<"v","i","d","e","o">>
Subtitles == <<"s","u","b","t","i","t","l","e","s">>

(***************************************************************************)
(* parse_tracks: Track records and the line-by-line scan.                  *)
(***************************************************************************)
Track(track_id, track_type, language, codec) ==
    [track_id |-> track_id, type |-> track_type,
     language |-> language, codec |-> codec]

\* faulty variant: the language default is left empty
EmptyTrackNoLanguage == Track(<<>>, <<>>, <<>>, <<>>)

\* current_track = {'track_id': '', 'track_type': '', 'language': 'undefined', 'codec': ''}
EmptyTrack == Track(<<>>, <<>>, Undefined, <<>>)

\* one iteration of the loop body: acc = [tracks, current_track]
ParseLine(acc, rawline) ==
    LET line == Strip(rawline)
        cur == acc.current_track
    IN IF Contains(line, MarkTrackNumber)
       THEN LET flushed == IF cur.track_id # <<>>
                           THEN [tracks |-> Append(acc.tracks, cur),
                                 current_track |-> EmptyTrack]
                           ELSE acc
                id == RStripParen(Strip(SplitSecond(line, MarkMkvextract)))
            IN [flushed EXCEPT !.current_track.track_id = id]
       ELSE IF Contains(line, MarkTrackType)
       THEN [acc EXCEPT !.current_track.type = Strip(SplitSecond(line, Colon))]
       ELSE IF Contains(line, MarkCodecId)
       THEN [acc EXCEPT !.current_track.codec = Strip(SplitSecond(line, Colon))]
       ELSE IF Contains(line, MarkLanguage) /\ ~Contains(line, MarkIETF)
       THEN [acc EXCEPT !.current_track.language = Strip(SplitSecond(line, Colon))]
       ELSE acc

RECURSIVE ParseLines(_, _)
ParseLines(acc, lines) ==
    IF lines = <<>> THEN acc
    ELSE ParseLines(ParseLine(acc, lines[1]), Tail(lines))

\* parse_tracks applied to the stdout of mkvinfo (a sequence of lines)
ParseTracks(stdout) ==
    LET acc == ParseLines([tracks |-> <<>>, current_track |-> EmptyTrack], stdout)
    IN IF acc.current_track.track_id # <<>>
       THEN Append(acc.tracks, acc.current_track)
       ELSE acc.tracks

(***************************************************************************)
(* The text mkvinfo prints for a container.  A container is a record       *)
(* [tracks, title, size]; a track of the container is [type, language,     *)
(* codec] where language is <<>> (no Language element) or <<code>>; title  *)
(* is <<>> (no Title element) or <<text>>.  mkvmerge numbers track ids     *)
(* from 0 in storage order and mkvinfo numbers tracks from 1.              *)
(***************************************************************************)
Digits == <<"0","1","2","3","4","5","6","7","8","9">>

LineEbmlHead == <<"+"," ","E","B","M","L"," ","h","e","a","d">>
LineSegmentInfo == <<"|","+"," ","S","e","g","m","e","n","t"," ","i","n","f","o","r","m","a","t","i","o","n">>
LineTracks == <<"|","+"," ","T","r","a","c","k","s">>
LineTrack == <<"|"," ","+"," ","T","r","a","c","k">>
LineName == <<"|"," "," ","+"," ","N","a","m","e",":"," ","M","a","i","n",":"," ","5",".","1">>
PreTitle == <<"|"," "," ","+"," ","T","i","t","l","e",":"," ">>
PreTrackNumber == <<"|"," "," ","+"," ","T","r","a","c","k"," ","n","u","m","b","e","r",":"," ">>
MidTrackNumber == <<" ","(","t","r","a","c","k"," ","I","D"," ","f","o","r"," ","m","k","v","m","e","r","g","e"," ","&"," ","m","k","v","e","x","t","r","a","c","t",":"," ">>
PreTrackType == <<"|"," "," ","+"," ","T","r","a","c","k"," ","t","y","p","e",":"," ">>
PreCodecId == <<"|"," "," ","+"," ","C","o","d","e","c"," ","I","D",":"," ">>
PreLanguage == <<"|"," "," ","+"," ","L","a","n","g","u","a","g","e",":"," ">>
PreLanguageIETF == <<"|"," "," ","+"," ","L","a","n","g","u","a","g","e"," ","(","I","E","T","F"," ","B","C","P"," ","4","7",")",":"," ">>

Eng == <<"e","n","g">>
Jpn == <<"j","p","n">>
CodecAAC == <<"A","_","A","A","C">>
CodecAVC == <<"V","_","M","P","E","G","4","/","I","S","O","/","A","V","C">>
CodecUTF8 == <<"S","_","T","E","X","T","/","U","T","F","8">>

\* the two-letter form mkvinfo prints on the IETF line
IetfOf(lang) == IF lang = Eng THEN <<"e","n">> ELSE IF lang = Jpn THEN <<"j","a">> ELSE lang

\* "|  + Track number: n (track ID for mkvmerge & mkvextract: n-1)"
TrackNumberLine(n) ==
    PreTrackNumber \o <<Digits[n + 1]>> \o MidTrackNumber \o <<Digits[n]>> \o <<")">>

TrackLines(t, n) ==
    <<LineTrack, TrackNumberLine(n), PreTrackType \o t.type, PreCodecId \o t.codec>>
    \o (IF t.language = <<>> THEN <<>>
        ELSE <<PreLanguage \o t.language[1],
               PreLanguageIETF \o IetfOf(t.language[1])>>)

RECURSIVE AllTrackLines(_, _)
AllTrackLines(ts, n) ==
    IF n > Len(ts) THEN <<>> ELSE TrackLines(ts[n], n) \o AllTrackLines(ts, n + 1)

MkvinfoOutput(c) ==
    <<LineEbmlHead, LineSegmentInfo>>
    \o (IF c.title = <<>> THEN <<>> ELSE <<PreTitle \o c.title[1]>>)
    \o <<LineTracks>>
    \o AllTrackLines(c.tracks, 1)

(***************************************************************************)
(* State.                                                                  *)
(***************************************************************************)
VARIABLES
    p_pc,        \* parse harness: "build" while text is assembled, "parsed" after
    p_stdout,    \* parse harness: the mkvinfo text given to parse_tracks
    p_blocks,    \* parse harness: the track blocks written into p_stdout
    p_have,      \* parse harness: field lines already in the last block
    p_tracks,    \* parse harness: the list parse_tracks returned
    m_pc,        \* MKV processor: position in main / process_mkv_file
    m_run,       \* MKV processor: number of the current invocation
    m_args,      \* MKV processor: parsed command line
    m_stem,      \* MKV processor: name of the target file without '.mkv'
    m_disk,      \* MKV processor: content of each path, <<>> when absent
    m_disk0,     \* MKV processor: m_disk when the current invocation started
    m_tracks,    \* MKV processor: local variable tracks
    m_sizes,     \* MKV processor: <<original_size, new_size>> once read, else <<>>
    m_cmds,      \* MKV processor: mutating calls issued by this invocation
    m_msg,       \* MKV processor: the message the invocation ended with
    m_exit,      \* MKV processor: <<>> while running, <<code>> once exited
    m_prev,      \* MKV processor: m_cmds and m_msg of the previous invocation
    s_pc,        \* stitcher: position in concatenate_and_encode
    s_args,      \* stitcher: resolution, sort_by and dry_run of the command line
    s_dir,       \* stitcher: the entries of input_dir
    s_mismatched,\* stitcher: local variable mismatched_files
    s_video_files,\* stitcher: local variable video_files (names, in order)
    s_manifest,  \* stitcher: <<>> until written, then <<names listed>>
    s_ffmpeg,    \* stitcher: number of ffmpeg invocations
    s_output,    \* stitcher: TRUE once output_file exists
    s_msg,       \* stitcher: the message the run ended with
    s_exit       \* stitcher: <<>> while running, <<code>> once exited

pvars == <<p_pc, p_stdout, p_blocks, p_have, p_tracks>>

mvars == <<m_pc, m_run, m_args, m_stem, m_disk, m_disk0,
           m_tracks, m_sizes, m_cmds, m_msg, m_exit, m_prev>>

svars == <<s_pc, s_args, s_dir, s_mismatched, s_video_files,
           s_manifest, s_ffmpeg, s_output, s_msg, s_exit>>

vars == <<pvars, mvars, svars>>

(***************************************************************************)
(* parse_tracks on its own: the text is assembled line by line from        *)
(* well-formed track blocks and unrelated lines, then parsed.              *)
(***************************************************************************)
ParseIds == {1, 2}
ParseTypes == {Video, Audio}
ParseCodecs == {CodecAAC, CodecAVC}
ParseLanguages == {Eng, Jpn}
UnrelatedLines == {LineTrack, LineName}

ParseInit ==
    /\ p_pc = "build"
    /\ p_stdout = <<>>
    /\ p_blocks = <<>>
    /\ p_have = {}
    /\ p_tracks = <<>>

CanEmit == p_pc = "build" /\ Len(p_stdout) < MaxLines

CanEmitField(kind) == CanEmit /\ p_blocks # <<>> /\ kind \notin p_have

EmitTrackNumber ==
    \E n \in ParseIds :
        /\ CanEmit
        /\ p_stdout' = Append(p_stdout, TrackNumberLine(n))
        /\ p_blocks' = Append(p_blocks, Track(<<Digits[n]>>, <<>>, Undefined, <<>>))
        /\ p_have' = {}
        /\ UNCHANGED <<p_pc, p_tracks>>

EmitTrackType ==
    \E v \in ParseTypes :
        /\ CanEmitField("type")
        /\ p_stdout' = Append(p_stdout, PreTrackType \o v)
        /\ p_blocks' = [p_blocks EXCEPT ![Len(p_blocks)].type = v]
        /\ p_have' = p_have \cup {"type"}
        /\ UNCHANGED <<p_pc, p_tracks>>

EmitCodecId ==
    \E v \in ParseCodecs :
        /\ CanEmitField("codec")
        /\ p_stdout' = Append(p_stdout, PreCodecId \o v)
        /\ p_blocks' = [p_blocks EXCEPT ![Len(p_blocks)].codec = v]
        /\ p_have' = p_have \cup {"codec"}
        /\ UNCHANGED <<p_pc, p_tracks>>

EmitLanguage ==
    \E v \in ParseLanguages :
        /\ CanEmitField("language")
        /\ p_stdout' = Append(p_stdout, PreLanguage \o v)
        /\ p_blocks' = [p_blocks EXCEPT ![Len(p_blocks)].language = v]
        /\ p_have' = p_have \cup {"language"}
        /\ UNCHANGED <<p_pc, p_tracks>>

EmitLanguageIETF ==
    \E v \in ParseLanguages :
        /\ CanEmitField("ietf")
        /\ p_stdout' = Append(p_stdout, PreLanguageIETF \o IetfOf(v))
        /\ p_have' = p_have \cup {"ietf"}
        /\ UNCHANGED <<p_pc, p_blocks, p_tracks>>

EmitUnrelated ==
    \E l \in UnrelatedLines :
        /\ CanEmit
        /\ p_stdout' = Append(p_stdout, l)
        /\ UNCHANGED <<p_pc, p_blocks, p_have, p_tracks>>

RunParseTracks ==
    /\ p_pc = "build"
    /\ p_tracks' = ParseTracks(p_stdout)
    /\ p_pc' = "parsed"
    /\ UNCHANGED <<p_stdout, p_blocks, p_have>>

ParseNext ==
    \/ EmitTrackNumber
    \/ EmitTrackType
    \/ EmitCodecId
    \/ EmitLanguage
    \/ EmitLanguageIETF
    \/ EmitUnrelated
    \/ RunParseTracks

(***************************************************************************)
(* process_mkv.py: main and process_mkv_file.                              *)
(* Paths: "file" is the path given on the command line, "tmp_audio" is     *)
(* '<stem>_<keep_language>.mkv' and "tmp_subs" is '<stem>_no_subtitles.mkv'.*)
(***************************************************************************)
Paths == {"file", "tmp_audio", "tmp_subs"}

RequiredTools == {"mkvmerge", "mkvpropedit", "mkvinfo"}

\* the file argument: absent, a name not ending in '.mkv', or the target
FileArgs == {"none", "notes.txt", "target"}

\* --keep-language: <<>> when the option is absent, else <<value>>
KeepLanguages == {<<>>, <<<<>>>>, <<Eng>>}

ArgSpace ==
    [file : FileArgs, keep_language : KeepLanguages,
     delete_subtitles : BOOLEAN, dry_run : BOOLEAN]

\* tracks a container may hold
TrackKinds ==
    {[type |-> Video, language |-> <<>>, codec |-> CodecAVC],
     [type |-> Audio, language |-> <<Eng>>, codec |-> CodecAAC],
     [type |-> Audio, language |-> <<Jpn>>, codec |-> CodecAAC],
     [type |-> Subtitles, language |-> <<>>, codec |-> CodecUTF8]}

TrackListsUpTo(n) == UNION {[1..k -> TrackKinds] : k \in 0..n}

StemPlain == <<"a">>
StemColon == <<"a",":","b">>
StemSpace == <<"a"," ">>

\* mutating calls, in one record shape
MkvmergeAudio(ids) ==
    [tool |-> "mkvmerge", path |-> "tmp_audio", video_tracks |-> <<"0">>,
     audio_tracks |-> ids, no_subtitles |-> FALSE, title |-> <<>>]

MkvmergeNoSubtitles ==
    [tool |-> "mkvmerge", path |-> "tmp_subs", video_tracks |-> <<>>,
     audio_tracks |-> <<>>, no_subtitles |-> TRUE, title |-> <<>>]

Mkvpropedit(title) ==
    [tool |-> "mkvpropedit", path |-> "file", video_tracks |-> <<>>,
     audio_tracks |-> <<>>, no_subtitles |-> FALSE, title |-> title]

OsReplace(src) ==
    [tool |-> "os.replace", path |-> src, video_tracks |-> <<>>,
     audio_tracks |-> <<>>, no_subtitles |-> FALSE, title |-> <<>>]

OsRemove(src) ==
    [tool |-> "os.remove", path |-> src, video_tracks |-> <<>>,
     audio_tracks |-> <<>>, no_subtitles |-> FALSE, title |-> <<>>]

\* the ids of a comma-separated id list, as mkvmerge reads it
RECURSIVE SplitComma(_)
SplitComma(s) ==
    LET commas == {i \in 1..Len(s) : s[i] = ","}
    IN IF commas = {} THEN {s}
       ELSE {SubSeq(s, 1, MinOf(commas) - 1)}
            \cup SplitComma(SubSeq(s, MinOf(commas) + 1, Len(s)))

\* what mkvmerge writes for a command: video and audio tracks are kept when
\* their id is on the allow-list, subtitles unless --no-subtitles; the title
\* is copied; the size of the output is the tool's
MkvmergeOutput(c, cmd, size) ==
    LET Kept(i) ==
            IF cmd.no_subtitles THEN c.tracks[i].type # Subtitles
            ELSE IF c.tracks[i].type = Video
                 THEN <<Digits[i]>> \in SplitComma(cmd.video_tracks)
            ELSE IF c.tracks[i].type = Audio
                 THEN <<Digits[i]>> \in SplitComma(cmd.audio_tracks)
            ELSE TRUE
        RECURSIVE Pick(_)
        Pick(i) == IF i > Len(c.tracks) THEN <<>>
                   ELSE (IF Kept(i) THEN <<c.tracks[i]>> ELSE <<>>) \o Pick(i + 1)
    IN [tracks |-> Pick(1), title |-> c.title, size |-> size]

\* lines 144-148: the embedded title read back from mkvinfo, <<>> for None
RECURSIVE ReadTitle(_)
ReadTitle(stdout) ==
    IF stdout = <<>> THEN <<>>
    ELSE IF Contains(stdout[1], MarkTitle)
    THEN <<Strip(SplitSecond(stdout[1], Colon))>>
    ELSE ReadTitle(Tail(stdout))

\* if keep_language: (an absent option and an empty string are both falsy)
KeepLanguageGiven(args) == args.keep_language # <<>> /\ args.keep_language[1] # <<>>

IsAudio(t) == t.type = Audio

AudioTracks(tracks) == SelectSeq(tracks, IsAudio)

\* faulty variant: every audio track counts as a target
TargetTracksAnyLanguage(tracks, keep) == AudioTracks(tracks)

TargetTracks(tracks, keep) ==
    LET Match(t) == t.language = keep IN SelectSeq(AudioTracks(tracks), Match)

NonTargetTracks(tracks, keep) ==
    LET Differ(t) == t.language # keep IN SelectSeq(AudioTracks(tracks), Differ)

IsSubtitles(t) == t.type = Subtitles

SubtitleTracks(tracks) == SelectSeq(tracks, IsSubtitles)

TrackIds(tracks) == [i \in 1..Len(tracks) |-> tracks[i].track_id]

\* faulty variant: a remux of exactly half the size is accepted
SizeAcceptedAtHalf(new_size, original_size) == 2 * new_size >= original_size

\* if new_size > original_size / 2 (true division; sizes are integers)
SizeAccepted(new_size, original_size) == 2 * new_size > original_size

\* if dry_run: at the three mutation sites
DryRunAudio(args) == args.dry_run

DryRunSubtitles(args) == args.dry_run

\* faulty variant: the title is set in dry-run mode too
DryRunTitleIgnored(args) == FALSE

DryRunTitle(args) == args.dry_run

MkvExit(code, msg) ==
    /\ m_pc' = "exit"
    /\ m_exit' = <<code>>
    /\ m_msg' = msg

\* main, lines 161-180, up to the call of process_mkv_file
Main ==
    /\ m_pc = "start"
    /\ IF m_args.file = "none"
       THEN MkvExit(0, "help")
       ELSE \E installed \in SUBSET RequiredTools :   \* the tools on PATH
              IF installed # RequiredTools
              THEN MkvExit(1, "tool_missing")
              ELSE IF m_args.file # "target"
              THEN MkvExit(1, "not_mkv")
              ELSE /\ m_pc' = "process"
                   /\ UNCHANGED <<m_exit, m_msg>>
    /\ UNCHANGED <<m_run, m_args, m_stem, m_disk, m_disk0, m_tracks, m_sizes,
                   m_cmds, m_prev>>

\* process_mkv_file, lines 73-83: existence check and parse_tracks
ListTracks ==
    /\ m_pc = "process"
    /\ IF m_disk["file"] = <<>>
       THEN /\ MkvExit(0, "not_found")
            /\ UNCHANGED m_tracks
       ELSE \E mkvinfo_ok \in BOOLEAN :
              IF mkvinfo_ok
              THEN /\ m_tracks' = ParseTracks(MkvinfoOutput(m_disk["file"][1]))
                   /\ m_pc' = "audio"
                   /\ UNCHANGED <<m_exit, m_msg>>
              ELSE /\ MkvExit(1, "tool_failed")
                   /\ UNCHANGED m_tracks
    /\ UNCHANGED <<m_run, m_args, m_stem, m_disk, m_disk0, m_sizes,
                   m_cmds, m_prev>>

\* process_mkv_file, lines 86-124: the audio-language filter
FilterAudio ==
    /\ m_pc = "audio"
    /\ LET keep == m_args.keep_language[1]
           target_tracks == TargetTracks(m_tracks, keep)
           non_target_tracks == NonTargetTracks(m_tracks, keep)
           audio_track_ids == JoinComma(TrackIds(target_tracks))
           cmd == MkvmergeAudio(audio_track_ids)
           original == m_disk["file"][1]
       IN IF \/ ~KeepLanguageGiven(m_args)
             \/ non_target_tracks = <<>>
             \/ target_tracks = <<>>
             \/ DryRunAudio(m_args)
          THEN /\ m_pc' = "subs"
               /\ UNCHANGED <<m_disk, m_sizes, m_cmds, m_exit, m_msg>>
          ELSE \/ \E partial \in BOOLEAN :      \* mkvmerge exits non-zero
                    /\ m_cmds' = Append(m_cmds, cmd)
                    /\ m_disk' = IF partial
                                 THEN [m_disk EXCEPT !["tmp_audio"] =
                                          <<MkvmergeOutput(original, cmd, 0)>>]
                                 ELSE m_disk
                    /\ MkvExit(1, "tool_failed")
                    /\ UNCHANGED m_sizes
               \/ \E new_size \in 0..MaxSize :  \* mkvmerge succeeds
                    LET temp == MkvmergeOutput(original, cmd, new_size)
                    IN /\ m_sizes' = <<original.size, new_size>>
                       /\ IF SizeAccepted(new_size, original.size)
                          THEN /\ m_cmds' = m_cmds \o <<cmd, OsReplace("tmp_audio")>>
                               /\ m_disk' = [m_disk EXCEPT !["file"] = <<temp>>,
                                                           !["tmp_audio"] = <<>>]
                               /\ m_pc' = "subs"
                               /\ UNCHANGED <<m_exit, m_msg>>
                          ELSE /\ m_cmds' = m_cmds \o <<cmd, OsRemove("tmp_audio")>>
                               /\ m_disk' = [m_disk EXCEPT !["tmp_audio"] = <<>>]
                               /\ MkvExit(1, "size_check")
    /\ UNCHANGED <<m_run, m_args, m_stem, m_disk0, m_tracks, m_prev>>

\* process_mkv_file, lines 127-139: the subtitle stripper
StripSubtitles ==
    /\ m_pc = "subs"
    /\ LET original == m_disk["file"][1]
           cmd == MkvmergeNoSubtitles
       IN IF \/ ~m_args.delete_subtitles
             \/ SubtitleTracks(m_tracks) = <<>>
             \/ DryRunSubtitles(m_args)
          THEN /\ m_pc' = "title"
               /\ UNCHANGED <<m_disk, m_cmds, m_exit, m_msg>>
          ELSE \/ \E partial \in BOOLEAN :      \* mkvmerge exits non-zero
                    /\ m_cmds' = Append(m_cmds, cmd)
                    /\ m_disk' = IF partial
                                 THEN [m_disk EXCEPT !["tmp_subs"] =
                                          <<MkvmergeOutput(original, cmd, 0)>>]
                                 ELSE m_disk
                    /\ MkvExit(1, "tool_failed")
               \/ \E new_size \in 0..MaxSize :  \* mkvmerge succeeds
                    /\ m_cmds' = m_cmds \o <<cmd, OsReplace("tmp_subs")>>
                    /\ m_disk' = [m_disk EXCEPT
                                    !["file"] = <<MkvmergeOutput(original, cmd, new_size)>>,
                                    !["tmp_subs"] = <<>>]
                    /\ m_pc' = "title"
                    /\ UNCHANGED <<m_exit, m_msg>>
    /\ UNCHANGED <<m_run, m_args, m_stem, m_disk0, m_tracks, m_sizes,
                   m_prev>>

\* process_mkv_file, lines 141-159: the title normalizer
UpdateTitle ==
    /\ m_pc = "title"
    /\ LET title == m_stem
           original == m_disk["file"][1]
           current_title == ReadTitle(MkvinfoOutput(original))
       IN \E mkvinfo_ok \in BOOLEAN :
            IF ~mkvinfo_ok
            THEN /\ MkvExit(1, "tool_failed")
                 /\ UNCHANGED <<m_disk, m_cmds>>
            ELSE IF current_title = <<title>>
            THEN /\ MkvExit(0, "title_matches")
                 /\ UNCHANGED <<m_disk, m_cmds>>
            ELSE IF DryRunTitle(m_args)
            THEN /\ MkvExit(0, "would_set_title")
                 /\ UNCHANGED <<m_disk, m_cmds>>
            ELSE /\ m_cmds' = Append(m_cmds, Mkvpropedit(title))
                 /\ \E mkvpropedit_ok \in BOOLEAN :
                      IF mkvpropedit_ok
                      THEN /\ m_disk' = [m_disk EXCEPT !["file"] =
                                            <<[original EXCEPT !.title = <<title>>]>>]
                           /\ MkvExit(0, "set_title")
                      ELSE /\ m_disk' = m_disk
                           /\ MkvExit(1, "tool_failed")
    /\ UNCHANGED <<m_run, m_args, m_stem, m_disk0, m_tracks, m_sizes,
                   m_prev>>

\* the same command line is run again on the files the previous run left
RunAgain ==
    /\ m_pc = "exit"
    /\ m_run < MaxRuns
    /\ m_run' = m_run + 1
    /\ m_pc' = "start"
    /\ m_prev' = [cmds |-> m_cmds, msg |-> m_msg]
    /\ m_cmds' = <<>>
    /\ m_sizes' = <<>>
    /\ m_disk0' = m_disk
    /\ m_tracks' = <<>>
    /\ m_exit' = <<>>
    /\ m_msg' = "running"
    /\ UNCHANGED <<m_args, m_stem, m_disk>>

\* initial states: the target is absent or one of the given containers
MkvInitWith(containers, stems) ==
    /\ m_pc = "start"
    /\ m_run = 1
    /\ m_args \in ArgSpace
    /\ m_stem \in stems
    /\ \E f \in {<<>>} \cup {<<c>> : c \in containers} :
         m_disk = [p \in Paths |-> IF p = "file" THEN f ELSE <<>>]
    /\ m_disk0 = m_disk
    /\ m_tracks = <<>>
    /\ m_sizes = <<>>
    /\ m_cmds = <<>>
    /\ m_msg = "running"
    /\ m_exit = <<>>
    /\ m_prev = [cmds |-> <<>>, msg |-> "none"]

MkvIdle ==
    /\ m_pc = "idle"
    /\ m_run = 1
    /\ m_args = [file |-> "none", keep_language |-> <<>>,
                 delete_subtitles |-> FALSE, dry_run |-> FALSE]
    /\ m_stem = StemPlain
    /\ m_disk = [p \in Paths |-> <<>>]
    /\ m_disk0 = m_disk
    /\ m_tracks = <<>>
    /\ m_sizes = <<>>
    /\ m_cmds = <<>>
    /\ m_msg = "running"
    /\ m_exit = <<>>
    /\ m_prev = [cmds |-> <<>>, msg |-> "none"]

ParseIdle ==
    /\ p_pc = "idle"
    /\ p_stdout = <<>>
    /\ p_blocks = <<>>
    /\ p_have = {}
    /\ p_tracks = <<>>

(***************************************************************************)
(* hevc_stitcher.py: concatenate_and_encode.  input_dir exists; its        *)
(* entries are named 1..MaxFiles, os.listdir returns them in name order.   *)
(* An entry is [present, video, probe]: video tells whether the name ends  *)
(* in .mov/.mp4, probe is <<>> when get_video_details raises for the file  *)
(* and <<[width, height]>> when it returns.                                *)
(***************************************************************************)
Names == 1..MaxFiles

StitchTools == {"ffmpeg", "ffprobe"}

Resolutions == {"480p", "720p", "1080p", "4K"}

\* get_resolution_and_fps, lines 40-47
GetResolution(resolution) ==
    IF resolution = "480p" THEN [width |-> 640, height |-> 360]
    ELSE IF resolution = "720p" THEN [width |-> 1280, height |-> 720]
    ELSE IF resolution = "1080p" THEN [width |-> 1920, height |-> 1080]
    ELSE [width |-> 3840, height |-> 2160]

ProbedSizes ==
    {[width |-> 1920, height |-> 1080], [width |-> 1280, height |-> 720],
     [width |-> 1920, height |-> 720]}

NoEntry == [present |-> FALSE, video |-> FALSE, probe |-> <<>>]

Entries ==
    {NoEntry, [present |-> TRUE, video |-> FALSE, probe |-> <<>>],
     [present |-> TRUE, video |-> TRUE, probe |-> <<>>]}
    \cup {[present |-> TRUE, video |-> TRUE, probe |-> <<d>>] : d \in ProbedSizes}

StitchArgSpace ==
    [resolution : Resolutions, sort_by : {"filename", "creation_date"},
     dry_run : BOOLEAN]

\* is_video_file applied to the entries os.listdir returns
IsVideoFile(dir, f) == dir[f].present /\ dir[f].video

\* faulty variant: a file mismatches only when both dimensions differ
MismatchBoth(details, target_width, target_height) ==
    details.width # target_width /\ details.height # target_height

\* lines 245-248
Mismatch(details, target_width, target_height) ==
    details.width # target_width \/ details.height # target_height

\* verify_resolutions, lines 235-257: files from f on, in sorted order
RECURSIVE VerifyFrom(_, _, _, _)
VerifyFrom(dir, f, target_width, target_height) ==
    IF f > MaxFiles THEN <<>>
    ELSE (IF /\ IsVideoFile(dir, f)
             /\ dir[f].probe # <<>>
             /\ Mismatch(dir[f].probe[1], target_width, target_height)
          THEN <<[filename |-> f, size |-> dir[f].probe[1]]>>
          ELSE <<>>)
         \o VerifyFrom(dir, f + 1, target_width, target_height)

VerifyResolutions(dir, target_width, target_height) ==
    VerifyFrom(dir, 1, target_width, target_height)

\* the members of a set of names in ascending order
RECURSIVE Ascending(_)
Ascending(S) ==
    IF S = {} THEN <<>> ELSE <<MinOf(S)>> \o Ascending(S \ {MinOf(S)})

\* get_sorted_video_files, lines 199-217; mtime is what os.path.getmtime
\* returns for each name (sorted() is stable)
GetSortedVideoFiles(dir, sort_by, mtime) ==
    LET video == {f \in Names : IsVideoFile(dir, f)}
    IN IF sort_by = "creation_date"
       THEN Ascending({f \in video : mtime[f] = 1})
            \o Ascending({f \in video : mtime[f] = 2})
       ELSE Ascending(video)

\* if dry_run: line 359
DryRunEncode(args) == args.dry_run

StitchExit(code, msg) ==
    /\ s_pc' = "exit"
    /\ s_exit' = <<code>>
    /\ s_msg' = msg

\* lines 275-284
CheckTools ==
    /\ s_pc = "start"
    /\ \E installed \in SUBSET StitchTools :   \* the tools shutil.which finds
         IF installed # StitchTools
         THEN StitchExit(1, "tool_missing")
         ELSE /\ s_pc' = "verify"
              /\ UNCHANGED <<s_exit, s_msg>>
    /\ UNCHANGED <<s_args, s_dir, s_mismatched, s_video_files, s_manifest,
                   s_ffmpeg, s_output>>

\* lines 286-303
CheckResolutions ==
    /\ s_pc = "verify"
    /\ LET target == GetResolution(s_args.resolution)
           mismatched_files == VerifyResolutions(s_dir, target.width, target.height)
       IN /\ s_mismatched' = mismatched_files
          /\ IF mismatched_files # <<>>
             THEN StitchExit(1, "mismatch")
             ELSE /\ s_pc' = "sort"
                  /\ UNCHANGED <<s_exit, s_msg>>
    /\ UNCHANGED <<s_args, s_dir, s_video_files, s_manifest,
                   s_ffmpeg, s_output>>

\* lines 305-317
SortFiles ==
    /\ s_pc = "sort"
    /\ \E mtime \in [Names -> 1..2] :
         LET video_files == GetSortedVideoFiles(s_dir, s_args.sort_by, mtime)
         IN /\ s_video_files' = video_files
            /\ IF video_files = <<>>
               THEN StitchExit(1, "no_files")
               ELSE /\ s_pc' = "manifest"
                    /\ UNCHANGED <<s_exit, s_msg>>
    /\ UNCHANGED <<s_args, s_dir, s_mismatched, s_manifest,
                   s_ffmpeg, s_output>>

\* lines 319-357: the manifest is written and the command line is printed
WriteManifest ==
    /\ s_pc = "manifest"
    /\ s_manifest' = <<s_video_files>>
    /\ s_pc' = "ffmpeg"
    /\ UNCHANGED <<s_args, s_dir, s_mismatched, s_video_files,
                   s_ffmpeg, s_output, s_msg, s_exit>>

\* lines 359-372: dry-run return, or the ffmpeg run and its outcome
RunFfmpeg ==
    /\ s_pc = "ffmpeg"
    /\ IF DryRunEncode(s_args)
       THEN /\ StitchExit(0, "dry_run")
            /\ UNCHANGED <<s_ffmpeg, s_output>>
       ELSE /\ s_ffmpeg' = s_ffmpeg + 1
            /\ \E ffmpeg_ok \in BOOLEAN :
                 IF ffmpeg_ok
                 THEN /\ s_output' = TRUE
                      /\ StitchExit(0, "encoded")
                 ELSE /\ s_output' \in BOOLEAN
                      /\ StitchExit(0, "encode_failed")
    /\ UNCHANGED <<s_args, s_dir, s_mismatched, s_video_files,
                   s_manifest>>

StitchInit ==
    /\ s_pc = "start"
    /\ s_args \in StitchArgSpace
    /\ s_dir \in [Names -> Entries]
    /\ s_mismatched = <<>>
    /\ s_video_files = <<>>
    /\ s_manifest = <<>>
    /\ s_ffmpeg = 0
    /\ s_output = FALSE
    /\ s_msg = "running"
    /\ s_exit = <<>>

StitchIdle ==
    /\ s_pc = "idle"
    /\ s_args = [resolution |-> "4K", sort_by |-> "filename", dry_run |-> FALSE]
    /\ s_dir = [f \in Names |-> NoEntry]
    /\ s_mismatched = <<>>
    /\ s_video_files = <<>>
    /\ s_manifest = <<>>
    /\ s_ffmpeg = 0
    /\ s_output = FALSE
    /\ s_msg = "running"
    /\ s_exit = <<>>

StitchNext ==
    \/ CheckTools
    \/ CheckResolutions
    \/ SortFiles
    \/ WriteManifest
    \/ RunFfmpeg

(***************************************************************************)
(* Specifications.                                                         *)
(***************************************************************************)
\* one invocation, every container up to MaxTracks tracks
MkvContainers ==
    [tracks : TrackListsUpTo(MaxTracks), title : {<<>>, <<StemPlain>>},
     size : 1..MaxSize]

MkvInit == MkvInitWith(MkvContainers, {StemPlain}) /\ ParseIdle /\ StitchIdle

MkvNext ==
    /\ \/ Main
       \/ ListTracks
       \/ FilterAudio
       \/ StripSubtitles
       \/ UpdateTitle
    /\ UNCHANGED <<pvars, svars>>

SpecMkv == MkvInit /\ [][MkvNext]_vars

\* two invocations in a row, every stem and title, small containers
TwiceContainers ==
    [tracks : TrackListsUpTo(1), title : {<<>>, <<StemPlain>>},
     size : {MaxSize}]

TwiceInit ==
    MkvInitWith(TwiceContainers, {StemPlain, StemColon, StemSpace})
    /\ ParseIdle /\ StitchIdle

TwiceNext ==
    /\ \/ Main
       \/ ListTracks
       \/ FilterAudio
       \/ StripSubtitles
       \/ UpdateTitle
       \/ RunAgain
    /\ UNCHANGED <<pvars, svars>>

SpecMkvTwice == TwiceInit /\ [][TwiceNext]_vars

\* one invocation in a directory that may already hold other files at the
\* paths of lines 107 and 136
DirContainers ==
    [tracks : TrackListsUpTo(MaxTracks - 1), title : {<<>>}, size : {MaxSize}]

\* a file of the directory that is not the target and not a remux of it
OtherFile == [tracks |-> <<>>, title |-> <<StemSpace>>, size |-> 1]

DirInit ==
    /\ m_pc = "start"
    /\ m_run = 1
    /\ m_args \in ArgSpace
    /\ m_stem = StemPlain
    /\ \E f \in {<<>>} \cup {<<c>> : c \in DirContainers} :
         \E a \in {<<>>, <<OtherFile>>} :
           \E n \in {<<>>, <<OtherFile>>} :
             m_disk = [p \in Paths |-> IF p = "file" THEN f
                                       ELSE IF p = "tmp_audio" THEN a ELSE n]
    /\ m_disk0 = m_disk
    /\ m_tracks = <<>>
    /\ m_sizes = <<>>
    /\ m_cmds = <<>>
    /\ m_msg = "running"
    /\ m_exit = <<>>
    /\ m_prev = [cmds |-> <<>>, msg |-> "none"]
    /\ ParseIdle
    /\ StitchIdle

SpecMkvDir == DirInit /\ [][MkvNext]_vars

\* parse_tracks on its own
ParseOnlyInit == ParseInit /\ MkvIdle /\ StitchIdle

ParseOnlyNext == ParseNext /\ UNCHANGED <<mvars, svars>>

SpecParse == ParseOnlyInit /\ [][ParseOnlyNext]_vars

\* one invocation of the stitcher
StitchOnlyInit == StitchInit /\ MkvIdle /\ ParseIdle

StitchOnlyNext == StitchNext /\ UNCHANGED <<mvars, pvars>>

SpecStitch == StitchOnlyInit /\ [][StitchOnlyNext]_vars

\* either utility, one invocation
ToolsInit ==
    \/ MkvInit
    \/ StitchOnlyInit

ToolsNext ==
    \/ MkvNext
    \/ StitchOnlyNext

SpecTools == ToolsInit /\ [][ToolsNext]_vars

(***************************************************************************)
(* Properties.                                                             *)
(***************************************************************************)

\* C1: once the audio remux has succeeded and both sizes are read, the file
\* is replaced by the remux output iff new_size is strictly larger than half
\* of original_size; on rejection the temp file is gone, the original is
\* untouched, nothing is issued after the os.remove and the exit code is 1.
AudioSizeCheck ==
    m_sizes # <<>> =>
        LET original_size == m_sizes[1]
            new_size == m_sizes[2]
            larger == 2 * new_size > original_size
            replaced == \E k \in 1..Len(m_cmds) : m_cmds[k] = OsReplace("tmp_audio")
        IN /\ original_size = m_disk0["file"][1].size
           /\ larger <=> replaced
           /\ (larger /\ m_pc = "subs") =>
                 /\ m_disk["file"] # m_disk0["file"]
                 /\ m_disk["file"][1].size = new_size
                 /\ m_disk["tmp_audio"] = <<>>
           /\ ~larger =>
                 /\ m_disk = m_disk0
                 /\ m_pc = "exit"
                 /\ m_exit = <<1>>
                 /\ Len(m_cmds) = 2
                 /\ m_cmds[2] = OsRemove("tmp_audio")

\* reached: a remux of exactly half the original size was rejected
AudioRejectedAtHalf ==
    /\ m_sizes # <<>>
    /\ 2 * m_sizes[2] = m_sizes[1]
    /\ m_exit = <<1>>
    /\ m_msg = "size_check"

\* C2 as stated: with --keep-language given, no dry-run, at least one audio
\* track and no audio track in keep_language, the invocation issues no audio
\* remux and the file's content stays what it was before the run.
NoTargetFileUnchanged ==
    LET c == m_disk0["file"][1]
        keep == m_args.keep_language[1]
        audio == {i \in 1..Len(c.tracks) : c.tracks[i].type = Audio}
    IN (/\ m_args.file = "target"
        /\ m_disk0["file"] # <<>>
        /\ KeepLanguageGiven(m_args)
        /\ ~m_args.dry_run
        /\ audio # {}
        /\ \A i \in audio : c.tracks[i].language # <<keep>>)
       => /\ \A k \in 1..Len(m_cmds) : m_cmds[k].path # "tmp_audio"
          /\ m_disk["file"] = m_disk0["file"]

\* C2 amended: in that case the audio filter issues no remux and no replace,
\* and every file is unchanged when the audio-filter step ends; the file
\* changes afterwards only through the subtitle stripper's replace or
\* through mkvpropedit.
NoTargetFilterRefuses ==
    LET c == m_disk0["file"][1]
        keep == m_args.keep_language[1]
        audio == {i \in 1..Len(c.tracks) : c.tracks[i].type = Audio}
    IN (/\ m_args.file = "target"
        /\ m_disk0["file"] # <<>>
        /\ KeepLanguageGiven(m_args)
        /\ ~m_args.dry_run
        /\ audio # {}
        /\ \A i \in audio : c.tracks[i].language # <<keep>>)
       => /\ \A k \in 1..Len(m_cmds) : m_cmds[k].path # "tmp_audio"
          /\ m_sizes = <<>>
          /\ m_pc = "subs" => (m_disk = m_disk0 /\ m_cmds = <<>>)
          /\ m_disk["file"] # m_disk0["file"] =>
                \E k \in 1..Len(m_cmds) :
                    \/ m_cmds[k] = OsReplace("tmp_subs")
                    \/ m_cmds[k].tool = "mkvpropedit"

\* reached: the audio-filter step has ended on a container whose audio tracks
\* are all in another language
NoTargetRefused ==
    /\ m_pc = "subs"
    /\ m_args.file = "target"
    /\ KeepLanguageGiven(m_args)
    /\ ~m_args.dry_run
    /\ AudioTracks(m_tracks) # <<>>
    /\ \A i \in 1..Len(m_disk0["file"][1].tracks) :
          m_disk0["file"][1].tracks[i].language # <<m_args.keep_language[1]>>

\* C3: with --dry-run the MKV processor issues no mutating call and leaves
\* every file as it was before the run; the stitcher never invokes ffmpeg and
\* never creates the output file.
DryRunIssuesNothing ==
    /\ m_args.dry_run => (m_cmds = <<>> /\ m_disk = m_disk0)
    /\ s_args.dry_run => (s_ffmpeg = 0 /\ ~s_output)

\* reached: a dry run has ended in which all three mutation sites had
\* something to do
DryRunAllSitesReported ==
    /\ m_args.dry_run
    /\ m_pc = "exit"
    /\ m_msg = "would_set_title"
    /\ KeepLanguageGiven(m_args)
    /\ TargetTracks(m_tracks, m_args.keep_language[1]) # <<>>
    /\ NonTargetTracks(m_tracks, m_args.keep_language[1]) # <<>>
    /\ m_args.delete_subtitles
    /\ SubtitleTracks(m_tracks) # <<>>

\* C4: when the first of two runs without --dry-run has set the title with
\* mkvpropedit, the second run does not invoke mkvpropedit.
TitleSetAtMostOnce ==
    (m_run = 2 /\ ~m_args.dry_run /\ m_prev.msg = "set_title")
    => \A k \in 1..Len(m_cmds) : m_cmds[k].tool # "mkvpropedit"

\* C5: once the audio-filter step has run, an audio remux has been issued iff
\* keep_language is given, the run is not a dry-run and the container has
\* both a target and a non-target audio track; the command carries
\* '--video-tracks 0' and '--audio-tracks' with the target ids joined by ','
\* in track order.
AudioRemuxDecision ==
    LET c == m_disk0["file"][1]
        keep == m_args.keep_language[1]
        IsTarget(i) == c.tracks[i].type = Audio /\ c.tracks[i].language = <<keep>>
        IsNonTarget(i) == c.tracks[i].type = Audio /\ c.tracks[i].language # <<keep>>
        RECURSIVE Ids(_)
        Ids(i) == IF i > Len(c.tracks) THEN <<>>
                  ELSE IF ~IsTarget(i) THEN Ids(i + 1)
                  ELSE IF Ids(i + 1) = <<>> THEN <<Digits[i]>>
                  ELSE <<Digits[i], ",">> \o Ids(i + 1)
        issued == {k \in 1..Len(m_cmds) :
                      m_cmds[k].tool = "mkvmerge" /\ m_cmds[k].path = "tmp_audio"}
        done == \/ m_pc \in {"subs", "title"}
                \/ /\ m_pc = "exit"
                   /\ \/ m_cmds # <<>>
                      \/ m_msg \in {"title_matches", "would_set_title", "set_title"}
    IN done =>
         /\ issued # {} <=>
               /\ KeepLanguageGiven(m_args)
               /\ ~m_args.dry_run
               /\ \E i \in 1..Len(c.tracks) : IsTarget(i)
               /\ \E i \in 1..Len(c.tracks) : IsNonTarget(i)
         /\ \A k \in issued :
               /\ m_cmds[k].video_tracks = <<"0">>
               /\ m_cmds[k].audio_tracks = Ids(1)

\* reached: audio {(0,eng),(1,jpn)} with keep_language eng: '--audio-tracks 0'
AudioRemuxExample ==
    /\ m_cmds # <<>>
    /\ m_cmds[1] = MkvmergeAudio(<<"0">>)
    /\ Len(m_disk0["file"][1].tracks) = 2
    /\ m_disk0["file"][1].tracks[1].language = <<Eng>>
    /\ m_disk0["file"][1].tracks[2].language = <<Jpn>>
    /\ m_args.keep_language = <<Eng>>

\* C6: parse_tracks returns one record per well-formed block, in source order,
\* each with the id, type and codec of its own block and the language of its
\* own non-IETF Language line ("undefined" when the block has none).
ParseMatchesBlocks == p_pc = "parsed" => p_tracks = p_blocks

\* reached: two blocks parsed, the first with only an IETF language line,
\* the second with a plain Language line
ParseTwoBlocksSeen ==
    /\ p_pc = "parsed"
    /\ Len(p_blocks) = 2
    /\ p_blocks[1].language = Undefined
    /\ p_blocks[2].language # Undefined
    /\ \E i \in 1..Len(p_stdout) : Contains(p_stdout[i], MarkIETF)

\* C7: the MKV processor exits with code 1 when a required tool is missing,
\* the file is not found, the name does not end in '.mkv' or the size check
\* fails, and with code 0 in every other run (runs ended by the non-zero
\* exit of an external tool, which are fatal, are left aside).
MkvExitStatus ==
    m_pc = "exit" =>
        /\ m_msg \in {"tool_missing", "not_found", "not_mkv", "size_check"}
              => m_exit = <<1>>
        /\ m_msg \notin {"tool_missing", "not_found", "not_mkv", "size_check",
                          "tool_failed"}
              => m_exit = <<0>>

\* C8: the stitcher exits with code 1 when a tool is missing, a file
\* mismatches the target resolution, no input file is found or the ffmpeg
\* encode fails, and with code 0 otherwise.
StitchExitStatus ==
    s_pc = "exit" =>
        (s_exit = <<1>> <=>
            s_msg \in {"tool_missing", "mismatch", "no_files", "encode_failed"})

\* C9: once verify_resolutions has returned, the mismatch list holds exactly
\* the successfully probed video files whose size differs from the target,
\* each once; when it is not empty the run has exited with code 1, no
\* manifest was written and ffmpeg was not invoked.
MismatchListExact ==
    LET target == GetResolution(s_args.resolution)
        expected == {f \in Names : /\ s_dir[f].present
                                   /\ s_dir[f].video
                                   /\ s_dir[f].probe # <<>>
                                   /\ s_dir[f].probe[1] # target}
        verified == \/ s_pc \in {"sort", "manifest", "ffmpeg"}
                    \/ s_pc = "exit" /\ s_msg # "tool_missing"
    IN verified =>
         /\ Len(s_mismatched) = Cardinality(expected)
         /\ \A f \in expected :
               \E i \in 1..Len(s_mismatched) :
                   s_mismatched[i] = [filename |-> f, size |-> s_dir[f].probe[1]]
         /\ s_mismatched # <<>> =>
               /\ s_pc = "exit"
               /\ s_exit = <<1>>
               /\ s_manifest = <<>>
               /\ s_ffmpeg = 0
               /\ ~s_output

\* reached: four files 1920x1080, 1920x1080, 1280x720, 1920x1080 against
\* 1080p give one mismatch
OneMismatchOfFour ==
    /\ s_pc = "exit"
    /\ s_args.resolution = "1080p"
    /\ \A f \in {1, 2, 4} :
          s_dir[f].probe = <<[width |-> 1920, height |-> 1080]>>
    /\ s_dir[3].probe = <<[width |-> 1280, height |-> 720]>>
    /\ Len(s_mismatched) = 1
    /\ s_mismatched[1].filename = 3

\* C10: at the encoder invocation (in dry-run, where it would be invoked)
\* every file listed in the manifest was probed successfully and has the
\* target width and height.
ManifestAllVerified ==
    s_pc = "ffmpeg" =>
        \A i \in 1..Len(s_manifest[1]) :
            /\ s_dir[s_manifest[1][i]].probe # <<>>
            /\ s_dir[s_manifest[1][i]].probe[1] = GetResolution(s_args.resolution)

\* C11: a run changes no pre-existing file but the target: a file that was
\* at the path of the audio remux output or of the no-subtitles remux output
\* when the run started is still there with the content it had.
OtherFilesUntouched ==
    \A p \in Paths \ {"file"} :
        m_disk0[p] # <<>> => m_disk[p] = m_disk0[p]

\* C12: when a run has terminated by itself, no remux output that the run
\* created (its path was free when the run started) is left on disk.
NoTempLeftAtExit ==
    m_pc = "exit" =>
        \A p \in Paths \ {"file"} :
            m_disk0[p] = <<>> => m_disk[p] = <<>>

====
